---------------------------- MODULE Spec2Model ----------------------------
(***************************************************************************)
(* Upload-session state machine of the Mod Uploader Bot, in its two        *)
(* variants: src/main.go (process-wide authentication flag                 *)
(* isFirstTimeSetup, persisted by the marker file password_entered.flag)   *)
(* and src/unnamed/part_000 (per-session field authenticated).             *)
(*                                                                         *)
(* The bot is created without Settings.Synchronous, so telebot runs every  *)
(* handler in a goroutine of its own.  The command and text handlers make  *)
(* no blocking call between reading and writing the session, and are one   *)
(* action each.  The document handler blocks on the progress reply, on     *)
(* b.File and on driveManager.uploadFile while it holds the *UploadSession *)
(* pointer it read from the map; it is modelled as a goroutine with a      *)
(* program counter: DocumentBegin (the checks and the progress reply),     *)
(* DocumentUpload (b.File and uploadFile return; on success the load of    *)
(* session.uploadCount++), DocumentIncStore (the store of                  *)
(* session.uploadCount++ and the success reply).  The increment is an      *)
(* unsynchronised load and store, hence two steps.                         *)
(*                                                                         *)
(* The handlers run inside b.Start(), which main reaches only after        *)
(* initGoogleDrive and tele.NewBot returned without error.                 *)
(***************************************************************************)
EXTENDS Integers, Sequences, FiniteSets, TLC

\* ------------------------------------------------------------------ bounds
MaxSessions == 2      \* /upload events handled (UploadSession objects allocated)
MaxHandlers == 2      \* document handlers in flight at the same time
MaxDocs     == 2      \* document events that reach the upload to Drive
MaxTime     == 1      \* ticks of the wall clock

Chats == {1, 2}
Procs == 1 .. MaxHandlers
\* addresses: the map and the running handlers hold at most so many objects
Slots == 1 .. (Cardinality(Chats) + MaxHandlers + 1)
Null  == [chatID |-> 0]

MainGo  == "main.go"
PartGo  == "part_000"

\* file names are sequences of characters
ModJar    == <<"m", "o", "d", ".", "j", "a", "r">>
DotJar    == <<".", "j", "a", "r">>
ReadmeTxt == <<"r", ".", "t", "x", "t">>
UpperJar  == <<"m", ".", "J", "A", "R">>
Jar       == <<"j", "a", "r">>
FileNames == {ModJar, DotJar, ReadmeTxt, UpperJar, Jar}

JarSuffix == <<".", "j", "a", "r">>

\* texts a user can send
Texts == {"pw", "password", "PW"}

\* what driveManager.listFiles() returns: the files of the folder, in the
\* order Drive lists them
Listings == {<<>>, <<ModJar, DotJar>>}

DefaultPassword == "password"

VARIABLES
    variant,          \* which of the two programs runs
    envPassword,      \* os.Getenv("upload_password")
    mainpc,           \* where main is: "init", "newBot", "serving", "exited"
    driveManager,     \* the *DriveManager of main ("nil" until initGoogleDrive returns one)
    markerFile,       \* password_entered.flag exists
    isFirstTimeSetup, \* global of main.go
    heap,             \* the UploadSession objects, by address (Null: free)
    uploadSessions,   \* map chatID -> *UploadSession (0: no entry)
    now,              \* wall clock
    pc, psess, ptmp,  \* document handler goroutines: position, session pointer, loaded count
    stored,           \* per session object: uploadFile calls that succeeded
    reported,         \* per session object: count sent by /done (-1: none)
    gotPassword,      \* per session object: correct password text received
    everAuthed,       \* the correct password was supplied (or the marker file records it)
    allocated,        \* /upload events handled so far
    accepted,         \* document events that reached the upload so far
    last              \* the reply sent last (c.Send) and the count it shows

vars == <<variant, envPassword, mainpc, driveManager, markerFile, isFirstTimeSetup, heap,
          uploadSessions, now, pc, psess, ptmp,
          stored, reported, gotPassword, everAuthed, allocated, accepted, last>>

config  == <<variant, envPassword, mainpc, driveManager>>
env     == <<variant, envPassword>>
budget  == <<allocated, accepted>>
procs   == <<pc, psess, ptmp>>
ghosts  == <<stored, reported, gotPassword>>

\* ----------------------------------------------------------------- helpers
\* HasSuffix as it would be with the suffix "jar", the dot forgotten
HasSuffixNoDot(s, suffix) ==
    /\ Len(s) >= Len(suffix) - 1
    /\ SubSeq(s, Len(s) - Len(suffix) + 2, Len(s)) = Tail(suffix)

\* strings.HasSuffix(s, suffix)
HasSuffix(s, suffix) ==
    /\ Len(s) >= Len(suffix)
    /\ SubSeq(s, Len(s) - Len(suffix) + 1, Len(s)) = suffix

\* uploadPassword as it would be if the handler did not read the environment
UploadPasswordDefault == DefaultPassword

\* uploadPassword as computed by the OnText handler
UploadPassword ==
    IF envPassword = "" THEN DefaultPassword ELSE envPassword

\* session, exists := uploadSessions[chatID]
Exists(c) == uploadSessions[c] # 0

\* !exists || !session.isActive
NoActiveSession(c) ==
    \/ ~Exists(c)
    \/ ~heap[uploadSessions[c]].isActive

\* the check as it would be in main.go with the per-session field of part_000
NotAuthenticatedPerSession(s) == ~heap[s].authenticated

\* the authentication check of the OnDocument handler, on session object s
NotAuthenticated(s) ==
    IF variant = MainGo THEN isFirstTimeSetup
                        ELSE ~heap[s].authenticated

\* the guard as it would be without the test of the authentication
TextIgnoredNoSession(c) == NoActiveSession(c)

\* the guard of the OnText handler that ignores the text
TextIgnored(c) ==
    \/ NoActiveSession(c)
    \/ IF variant = MainGo THEN ~isFirstTimeSetup
                           ELSE heap[uploadSessions[c]].authenticated

\* /upload as it would be if it kept the authentication of the session it replaces
NewSessionKeepAuth(c) ==
    [chatID |-> c, isActive |-> TRUE, uploadCount |-> 0, startTime |-> now,
     authenticated |-> (uploadSessions[c] # 0 /\ heap[uploadSessions[c]].authenticated)]

\* /upload as it would be if it kept the count of the session it replaces
NewSessionKeepCount(c) ==
    [chatID |-> c, isActive |-> TRUE,
     uploadCount |-> IF uploadSessions[c] # 0 THEN heap[uploadSessions[c]].uploadCount ELSE 0,
     startTime |-> now, authenticated |-> FALSE]

\* &UploadSession{...} of the /upload handler
NewSession(c) ==
    [chatID |-> c, isActive |-> TRUE, uploadCount |-> 0,
     startTime |-> now, authenticated |-> FALSE]

\* c.Send of a text that shows the number n
Reply(r, n) == [reply |-> r, n |-> n, names |-> <<>>]

\* the numbering of /list as it would be with i in place of i+1
NumberedFromZero(files) ==
    [k \in 1 .. Len(files) |-> <<k - 1, files[k]>>]

\* for i, file := range files { ... Sprintf("%d. %s\n", i+1, file.Name) }
\* (the k-th file has the Go index k-1)
Numbered(files) ==
    [k \in 1 .. Len(files) |-> <<(k - 1) + 1, files[k]>>]

\* c.Send(fileList.String())
ListReply(files) == [reply |-> "list", n |-> 0, names |-> Numbered(files)]

\* an error return as it would be if the handler returned err without c.Send
ErrorReplySwallowed(result) == Reply("none", 0)

\* return c.Send("Failed to ...: " + err.Error())
ErrorReply(result) == Reply(result, 0)

\* the error return as it would be if it closed the session
FailedCloses(h, s) == [h EXCEPT ![s].isActive = FALSE]

\* the heap after an error return of the document handler, which held object
\* s: the handler returns without writing to the session
Failed(h, s) == h

\* the flag as it would be without init(): the marker file never read
FirstTimeSetupNoInit(marker) == TRUE

\* var isFirstTimeSetup = true; init(): false when os.Stat finds the marker file
FirstTimeSetup(marker) == IF marker THEN FALSE ELSE TRUE

\* main after initGoogleDrive as it would be without the log.Fatal
AfterInitNoFatal(err) == "newBot"

\* if err != nil { log.Fatal(...) }
AfterInit(err) == IF err THEN "exited" ELSE "newBot"

InFlight == {p \in Procs : pc[p] # "idle"}

\* goroutines are interchangeable: a new handler takes the first free one
\* (0: MaxHandlers handlers are blocked in their upload)
FreeHandler ==
    IF \A p \in Procs : pc[p] # "idle" THEN 0
    ELSE CHOOSE p \in Procs : pc[p] = "idle" /\ \A q \in 1 .. p - 1 : pc[q] # "idle"

\* the session objects reachable from the map or from a running handler
Live == {uploadSessions[c] : c \in Chats} \cup {psess[p] : p \in InFlight}

\* Go's collector: once no pointer leads to an object it is gone.  h is the
\* heap (or a per-object record of it) as the handler leaves it.
Sweep(h, free) == [s \in Slots |-> IF s \in Live' THEN h[s] ELSE free]

SweepGhosts == /\ stored' = Sweep(stored, 0)
               /\ reported' = Sweep(reported, -1)
               /\ gotPassword' = Sweep(gotPassword, FALSE)

\* the address a new object gets
FreeSlot ==
    IF Slots \subseteq Live THEN 0
    ELSE CHOOSE s \in Slots : s \notin Live /\ \A r \in 1 .. s - 1 : r \in Live

\* the handlers as they would be without the delete
DeletedNot(m, c) == m

\* the delete as it would be if it emptied the map
DeletedAll(m, c) == [d \in DOMAIN m |-> 0]

\* delete(uploadSessions, chatID)
Deleted(m, c) == [m EXCEPT ![c] = 0]

\* the increment as it would be if the loaded value were stored back
IncrementedNot(n) == n

\* session.uploadCount++ applied to the loaded value n
Incremented(n) == n + 1

\* /upload as it would be if it asked for the password every time
UploadReplyAlwaysPrompt == "prompt"

\* the reply of the /upload handler
UploadReply ==
    IF variant = MainGo /\ ~isFirstTimeSetup THEN "ready" ELSE "prompt"

\* -------------------------------------------------------------------- Init
\* the process after init() and before main, with the
\* environment variable upload_password set to e ("": not set)
InitEnv(e) ==
    /\ variant \in {MainGo, PartGo}
    /\ envPassword = e
    /\ mainpc = "init"
    /\ driveManager = "nil"
    /\ markerFile \in (IF variant = MainGo THEN BOOLEAN ELSE {FALSE})
    /\ isFirstTimeSetup = FirstTimeSetup(markerFile)
    /\ heap = [s \in Slots |-> Null]
    /\ uploadSessions = [c \in Chats |-> 0]
    /\ now = 0
    /\ pc = [p \in Procs |-> "idle"]
    /\ psess = [p \in Procs |-> 0]
    /\ ptmp = [p \in Procs |-> 0]
    /\ stored = [s \in Slots |-> 0]
    /\ reported = [s \in Slots |-> -1]
    /\ gotPassword = [s \in Slots |-> FALSE]
    /\ everAuthed = markerFile
    /\ allocated = 0
    /\ accepted = 0
    /\ last = Reply("none", 0)

\* a deployment whose .env sets upload_password
Init == InitEnv("pw")

\* ----------------------------------------------------------------- actions
\* driveManager, err := initGoogleDrive(); if err != nil { log.Fatal(...) }
InitGoogleDrive(err) ==
    /\ mainpc = "init"
    /\ driveManager' = IF err THEN "nil" ELSE "ok"
    /\ mainpc' = AfterInit(err)
    /\ UNCHANGED <<env, budget, markerFile, isFirstTimeSetup, heap, uploadSessions,
                   now, procs, ghosts, everAuthed, last>>

\* b, err := tele.NewBot(pref); if err != nil { log.Fatal(err) }; the
\* b.Handle calls; b.Start()
NewBot(err) ==
    /\ mainpc = "newBot"
    /\ mainpc' = IF err THEN "exited" ELSE "serving"
    /\ UNCHANGED <<env, driveManager, budget, markerFile, isFirstTimeSetup, heap,
                   uploadSessions, now, procs, ghosts, everAuthed, last>>

\* b.Start() is running: the poller hands events to the handlers
Started == mainpc = "serving"

\* the wall clock advances
Tick ==
    /\ now < MaxTime
    /\ now' = now + 1
    /\ UNCHANGED <<config, budget, markerFile, isFirstTimeSetup, heap, uploadSessions,
                   procs, ghosts, everAuthed, last>>

\* b.Handle("/start", ...)
Start(c) ==
    /\ last' = Reply("welcome", 0)
    /\ UNCHANGED <<config, budget, markerFile, isFirstTimeSetup, heap, uploadSessions,
                   now, procs, ghosts, everAuthed>>

\* b.Handle("/upload", ...)
Upload(c) ==
    /\ allocated < MaxSessions
    /\ allocated' = allocated + 1
    /\ accepted' = accepted
    /\ uploadSessions' = [uploadSessions EXCEPT ![c] = FreeSlot]
    /\ last' = Reply(UploadReply, 0)
    /\ UNCHANGED <<config, markerFile, isFirstTimeSetup, now, procs, everAuthed>>
    /\ heap' = Sweep([heap EXCEPT ![FreeSlot] = NewSession(c)], Null)
    /\ SweepGhosts

\* b.Handle("/done", ...)
Done(c) ==
    /\ UNCHANGED <<config, budget, markerFile, isFirstTimeSetup, now, procs, everAuthed>>
    /\ IF NoActiveSession(c)
         THEN /\ last' = Reply("noSession", 0)
              /\ UNCHANGED <<heap, uploadSessions, ghosts>>
         ELSE LET s == uploadSessions[c] IN
              /\ uploadSessions' = Deleted(uploadSessions, c)
              /\ last' = Reply("summary", heap[s].uploadCount)
              /\ heap' = Sweep([heap EXCEPT ![s].isActive = FALSE], Null)
              /\ reported' = Sweep([reported EXCEPT ![s] = heap[s].uploadCount], -1)
              /\ stored' = Sweep(stored, 0)
              /\ gotPassword' = Sweep(gotPassword, FALSE)

\* b.Handle("/cancel", ...)
Cancel(c) ==
    /\ UNCHANGED <<config, budget, markerFile, isFirstTimeSetup, now, procs, everAuthed>>
    /\ IF NoActiveSession(c)
         THEN /\ last' = Reply("noSession", 0)
              /\ UNCHANGED <<heap, uploadSessions, ghosts>>
         ELSE LET s == uploadSessions[c] IN
              /\ uploadSessions' = Deleted(uploadSessions, c)
              /\ last' = Reply("cancelled", heap[s].uploadCount)
              /\ heap' = Sweep([heap EXCEPT ![s].isActive = FALSE], Null)
              /\ SweepGhosts

\* b.Handle(tele.OnText, ...); created: os.Create("password_entered.flag") succeeds
Text(c, t) ==
    /\ UNCHANGED <<config, budget, now, procs>>
    /\ IF TextIgnored(c)
         THEN /\ last' = Reply("none", 0)
              /\ UNCHANGED <<markerFile, isFirstTimeSetup, heap, uploadSessions,
                             ghosts, everAuthed>>
         ELSE LET s == uploadSessions[c] IN
              IF t = UploadPassword
                THEN /\ IF variant = MainGo
                          THEN /\ \E created \in BOOLEAN :
                                    markerFile' = (markerFile \/ created)
                               /\ isFirstTimeSetup' = FALSE
                               /\ UNCHANGED heap
                          ELSE /\ heap' = [heap EXCEPT ![s].authenticated = TRUE]
                               /\ UNCHANGED <<markerFile, isFirstTimeSetup>>
                     /\ gotPassword' = [gotPassword EXCEPT ![s] = TRUE]
                     /\ everAuthed' = (variant = MainGo \/ everAuthed)
                     /\ last' = Reply("authOk", 0)
                     /\ UNCHANGED <<uploadSessions, stored, reported>>
                ELSE /\ uploadSessions' = Deleted(uploadSessions, c)
                     /\ last' = Reply("rejected", 0)
                     /\ UNCHANGED <<markerFile, isFirstTimeSetup, everAuthed>>
                     /\ heap' = Sweep([heap EXCEPT ![s].isActive = FALSE], Null)
                     /\ SweepGhosts

\* b.Handle(tele.OnDocument, ...): from the event to the progress reply
DocumentBegin(p, c, f) ==
    /\ p = IF FreeHandler = 0 THEN 1 ELSE FreeHandler
    /\ IF NoActiveSession(c)
         THEN /\ last' = Reply("noSession", 0)
              /\ UNCHANGED <<procs, accepted>>
         ELSE LET s == uploadSessions[c] IN
              IF NotAuthenticated(s)
                THEN /\ last' = Reply("authFirst", 0)
                     /\ UNCHANGED <<procs, accepted>>
                ELSE IF ~HasSuffix(f, JarSuffix)
                  THEN /\ last' = Reply("onlyJar", 0)
                       /\ UNCHANGED <<procs, accepted>>
                  ELSE /\ FreeHandler # 0
                       /\ accepted < MaxDocs
                       /\ accepted' = accepted + 1
                       /\ pc' = [pc EXCEPT ![p] = "upload"]
                       /\ psess' = [psess EXCEPT ![p] = s]
                       /\ ptmp' = ptmp
                       /\ last' = Reply("progress", heap[s].uploadCount)
    /\ UNCHANGED <<config, allocated, markerFile, isFirstTimeSetup, heap, uploadSessions,
                   now, ghosts, everAuthed>>

\* the handler returns
Finish(p) ==
    /\ pc' = [pc EXCEPT ![p] = "idle"]
    /\ psess' = [psess EXCEPT ![p] = 0]
    /\ ptmp' = [ptmp EXCEPT ![p] = 0]

\* reader, err := b.File(&doc.File); err = driveManager.uploadFile(...);
\* on success the load of session.uploadCount++
DocumentUpload(p, result) ==
    /\ pc[p] = "upload"
    /\ UNCHANGED <<config, budget, markerFile, isFirstTimeSetup, uploadSessions,
                   now, everAuthed>>
    /\ IF result = "ok"
         THEN /\ pc' = [pc EXCEPT ![p] = "write"]
              /\ ptmp' = [ptmp EXCEPT ![p] = heap[psess[p]].uploadCount]
              /\ stored' = [stored EXCEPT ![psess[p]] = @ + 1]
              /\ UNCHANGED <<psess, heap, reported, gotPassword, last>>
         ELSE /\ Finish(p)
              /\ last' = ErrorReply(result)
              /\ heap' = Sweep(Failed(heap, psess[p]), Null)
              /\ SweepGhosts

\* session.uploadCount++ : the store, and the success reply
DocumentIncStore(p) ==
    /\ pc[p] = "write"
    /\ last' = Reply("uploaded", Incremented(ptmp[p]))
    /\ Finish(p)
    /\ UNCHANGED <<config, budget, markerFile, isFirstTimeSetup, uploadSessions,
                   now, everAuthed>>
    /\ heap' = Sweep([heap EXCEPT ![psess[p]].uploadCount = Incremented(ptmp[p])], Null)
    /\ SweepGhosts

UploadResults == {"ok", "fileError", "uploadError"}

\* what (dm *DriveManager) listFiles() can return: (nil, err) or (r.Files, nil)
ListFiles ==
    {[err |-> TRUE, files |-> <<>>]} \cup {[err |-> FALSE, files |-> l] : l \in Listings}

\* b.Handle("/list", ...); r: what driveManager.listFiles() returns (the
\* handler does not read c.Chat())
List(r) ==
    /\ last' = IF r.err THEN Reply("listError", 0)
               ELSE IF Len(r.files) = 0 THEN Reply("noMods", 0)
               ELSE ListReply(r.files)
    /\ UNCHANGED <<config, budget, markerFile, isFirstTimeSetup, heap, uploadSessions,
                   now, procs, ghosts, everAuthed>>

\* b.Handle("/quantity", ...)
Quantity(r) ==
    /\ last' = IF r.err THEN Reply("countError", 0)
               ELSE Reply("quantity", Len(r.files))
    /\ UNCHANGED <<config, budget, markerFile, isFirstTimeSetup, heap, uploadSessions,
                   now, procs, ghosts, everAuthed>>

Next ==
    \/ Tick
    \/ \E err \in BOOLEAN : InitGoogleDrive(err)
    \/ \E err \in BOOLEAN : NewBot(err)
    \/ Started /\ \E c \in Chats : Start(c)
    \/ Started /\ \E c \in Chats : Upload(c)
    \/ Started /\ \E c \in Chats : Done(c)
    \/ Started /\ \E c \in Chats : Cancel(c)
    \/ Started /\ \E c \in Chats, t \in Texts : Text(c, t)
    \/ Started /\ \E p \in Procs, c \in Chats, f \in FileNames : DocumentBegin(p, c, f)
    \/ Started /\ \E p \in Procs, result \in UploadResults : DocumentUpload(p, result)
    \/ Started /\ \E p \in Procs : DocumentIncStore(p)
    \/ Started /\ \E r \in ListFiles : List(r)
    \/ Started /\ \E r \in ListFiles : Quantity(r)

Spec == Init /\ [][Next]_vars

\* no handler of conversation c is blocked in its upload
Quiet(c) == \A p \in InFlight : heap[psess[p]].chatID # c

\* the same handlers when each conversation sends its next event only after
\* the previous one was answered (different conversations still overlap)
NextSerial ==
    \/ Tick
    \/ \E err \in BOOLEAN : InitGoogleDrive(err)
    \/ \E err \in BOOLEAN : NewBot(err)
    \/ Started /\ \E c \in Chats : Quiet(c) /\ Start(c)
    \/ Started /\ \E c \in Chats : Quiet(c) /\ Upload(c)
    \/ Started /\ \E c \in Chats : Quiet(c) /\ Done(c)
    \/ Started /\ \E c \in Chats : Quiet(c) /\ Cancel(c)
    \/ Started /\ \E c \in Chats, t \in Texts : Quiet(c) /\ Text(c, t)
    \/ Started /\ \E p \in Procs, c \in Chats, f \in FileNames : Quiet(c) /\ DocumentBegin(p, c, f)
    \/ Started /\ \E p \in Procs, result \in UploadResults : DocumentUpload(p, result)
    \/ Started /\ \E p \in Procs : DocumentIncStore(p)
    \/ Started /\ \E c \in Chats, r \in ListFiles : Quiet(c) /\ List(r)
    \/ Started /\ \E c \in Chats, r \in ListFiles : Quiet(c) /\ Quantity(r)

SpecSerial == Init /\ [][NextSerial]_vars

\* a deployment whose environment does not set upload_password
InitUnset == InitEnv("")

SpecUnset == InitUnset /\ [][Next]_vars

\* the process ends (log.Fatal, a fatal error of the runtime, a kill) and is
\* started again: the package variables are initialised anew and init() runs;
\* the handlers of the old process are gone, the marker file and the
\* environment remain
Restart ==
    /\ mainpc # "init"
    /\ mainpc' = "init"
    /\ driveManager' = "nil"
    /\ isFirstTimeSetup' = FirstTimeSetup(markerFile)
    /\ heap' = [s \in Slots |-> Null]
    /\ uploadSessions' = [c \in Chats |-> 0]
    /\ pc' = [p \in Procs |-> "idle"]
    /\ psess' = [p \in Procs |-> 0]
    /\ ptmp' = [p \in Procs |-> 0]
    /\ stored' = [s \in Slots |-> 0]
    /\ reported' = [s \in Slots |-> -1]
    /\ gotPassword' = [s \in Slots |-> FALSE]
    /\ everAuthed' = markerFile
    /\ last' = Reply("none", 0)
    /\ UNCHANGED <<env, markerFile, now, budget>>

NextRestart ==
    \/ Next
    \/ Restart

SpecRestart == Init /\ [][NextRestart]_vars

TypeOK ==
    /\ mainpc \in {"init", "newBot", "serving", "exited"}
    /\ driveManager \in {"nil", "ok"}
    /\ uploadSessions \in [Chats -> {0} \cup Slots]
    /\ \A s \in Slots : heap[s] # Null <=> s \in Live
    /\ \A s \in Live \ {0} : heap[s].uploadCount \in 0 .. MaxDocs
    /\ \A p \in InFlight : psess[p] \in Slots

\* ------------------------------------------------------------------ claims
\* the session objects the store holds
InStore == {uploadSessions[c] : c \in Chats} \ {0}

\* the name f is some prefix followed by ".jar"
EndsWithJar(f) ==
    \E k \in 0 .. Len(f) : f = SubSeq(f, 1, k) \o <<".", "j", "a", "r">>

\* the authentication condition of the running variant, for conversation c
AuthHolds(c) ==
    IF variant = MainGo THEN isFirstTimeSetup = FALSE
                        ELSE heap[uploadSessions[c]].authenticated

\* conversation c has an active, authenticated session and f is a .jar name
MayUpload(c, f) ==
    /\ uploadSessions[c] # 0
    /\ heap[uploadSessions[c]].isActive
    /\ AuthHolds(c)
    /\ EndsWithJar(f)

GuidanceReplies == {"noSession", "authFirst", "onlyJar"}

\* what the OnDocument handler sends before it turns to Drive
DocumentReplies == GuidanceReplies \cup {"progress"}

\* handlers that have loaded uploadCount of object s and not yet stored it
Writing(s) == {p \in Procs : pc[p] = "write" /\ psess[p] = s}

\* handlers that hold object s
Holding(s) == {p \in InFlight : psess[p] = s}

\* C1: a handler reaches the calls to Drive (b.File, uploadFile) only from a
\* document event handled while the conversation had an active, authenticated
\* session in the store and the file name ended with ".jar"; every other
\* document event sends a guidance reply, starts no upload and stores nothing.
\* (A document step leaves clock and allocation count alone and sends one of
\* DocumentReplies; the first antecedent only spares evaluating DocumentBegin
\* on the other steps.)
C1_UploadOnlyWhenAllowed ==
    [][ /\ (now' = now /\ allocated' = allocated /\ last'.reply \in DocumentReplies) =>
           \A p \in Procs, c \in Chats, f \in FileNames :
             DocumentBegin(p, c, f) =>
                IF MayUpload(c, f)
                  THEN /\ pc'[p] = "upload"
                       /\ psess'[p] = uploadSessions[c]
                  ELSE /\ pc' = pc
                       /\ stored' = stored
                       /\ last'.reply \in GuidanceReplies
        /\ \A p \in Procs :
             (pc[p] # "upload" /\ pc'[p] = "upload") =>
                \E c \in Chats, f \in FileNames :
                    DocumentBegin(p, c, f) /\ MayUpload(c, f)
        /\ stored' # stored =>
             \A s \in Slots :
                stored'[s] > stored[s] =>
                   \E p \in Procs : pc[p] = "upload" /\ psess[p] = s
      ]_vars

\* C1 witness: a .jar document is on its way to Drive
C1_Witness == \E p \in Procs : pc[p] = "upload" /\ last.reply = "progress"

\* C2: when the events of a conversation are handled one after the other,
\* uploadCount of every session equals the number of its document events whose
\* store call succeeded (the one whose increment is under way included);
\* rejected and failed document events change neither number.
C2_CountIsSuccessfulStores ==
    \A s \in Slots :
        heap[s] # Null =>
            heap[s].uploadCount + Cardinality(Writing(s)) = stored[s]

\* C2 witness: one store succeeded and was counted, the next one failed
C2_Witness ==
    \E s \in InStore :
        /\ heap[s].uploadCount = 1
        /\ stored[s] = 1
        /\ accepted = 2
        /\ last.reply = "uploadError"

\* C3: in main.go a file is stored for a session only if the correct password
\* text was entered in that session (in that conversation, after its /upload).
C3_StoredOnlyAfterOwnPassword ==
    variant = MainGo =>
        \A s \in Slots : stored[s] > 0 => gotPassword[s]

\* C4: in part_000 every /upload answers with the password prompt and leaves a
\* session that is not authenticated; a session is authenticated, has a handler
\* on its way to Drive or has files stored only if the correct password text
\* was received in that very session.
C4_PerSessionPassword ==
    [][ variant = PartGo =>
          /\ allocated' # allocated =>
               \A c \in Chats :
                  Upload(c) =>
                     /\ last'.reply = "prompt"
                     /\ heap'[uploadSessions'[c]].isActive
                     /\ ~heap'[uploadSessions'[c]].authenticated
                     /\ \A f \in FileNames : ~MayUpload(c, f)'
          /\ \A s \in Slots :
               heap'[s] # Null =>
                  /\ heap'[s].authenticated => gotPassword'[s]
                  /\ stored'[s] > 0 => gotPassword'[s]
                  /\ Holding(s)' # {} => gotPassword'[s]
      ]_vars

\* C4 witness: one conversation is authenticated and uploading, while a fresh
\* session of the other conversation was just sent the password prompt
C4_Witness ==
    /\ variant = PartGo
    /\ last.reply = "prompt"
    /\ \E c, d \in Chats :
          /\ c # d
          /\ uploadSessions[c] # 0 /\ heap[uploadSessions[c]].authenticated
          /\ stored[uploadSessions[c]] > 0
          /\ uploadSessions[d] # 0 /\ ~heap[uploadSessions[d]].authenticated

\* C5: in main.go, once the correct password has been supplied (in this run
\* or, as the marker file records, an earlier one) every /upload answers
\* "ready" and leaves a session that accepts documents, and a text is ignored
\* without reply; before that every /upload answers with the password prompt.
C5_ProcessWidePassword ==
    [][ variant = MainGo =>
          /\ allocated' # allocated =>
               \A c \in Chats :
                  Upload(c) =>
                     IF everAuthed
                       THEN /\ last'.reply = "ready"
                            /\ MayUpload(c, ModJar)'
                       ELSE /\ last'.reply = "prompt"
                            /\ ~MayUpload(c, ModJar)'
          /\ (everAuthed /\ last'.reply \in {"none", "authOk", "rejected"}) =>
               \A c \in Chats, t \in Texts :
                  Text(c, t) =>
                     /\ last'.reply = "none"
                     /\ UNCHANGED <<heap, uploadSessions, isFirstTimeSetup>>
          /\ everAuthed => everAuthed'
      ]_vars

\* C5 witness: the password was entered in a session that is still alive, and
\* a later /upload was answered "ready"
C5_Witness ==
    /\ variant = MainGo
    /\ last.reply = "ready"
    /\ \E s \in Slots : heap[s] # Null /\ gotPassword[s]

\* the authentication condition of the running variant, for session object s
AuthOf(s) ==
    IF variant = MainGo THEN isFirstTimeSetup = FALSE
                        ELSE heap[s].authenticated

\* C6: uploadCount of a session object never decreases, and every increment
\* (the store of session.uploadCount++) happens while that object is in the
\* store, active and authenticated, whatever else was handled meanwhile.
C6_IncrementOnlyWhileOpen ==
    [][ pc' # pc =>
          \A p \in Procs :
             DocumentIncStore(p) =>
                LET s == psess[p] IN
                /\ s \in InStore
                /\ heap[s].isActive
                /\ AuthOf(s)
                /\ s \in Live' => heap'[s].uploadCount >= heap[s].uploadCount
      ]_vars

\* C7: once every document handler of a session has returned, its uploadCount
\* is the number of its store calls that succeeded: no increment is lost,
\* also when the handlers ran at the same time.
C7_NoLostIncrement ==
    \A s \in Slots :
        (heap[s] # Null /\ Holding(s) = {}) =>
            heap[s].uploadCount = stored[s]

\* C8: the count sent in the /done summary is the number of files Drive stored
\* for that session, store calls that complete after /done included.
C8_SummaryCountsEveryStore ==
    \A s \in Slots :
        reported[s] >= 0 => reported[s] = stored[s]

\* a step takes the session of conversation c out of the store
Removed(c) ==
    /\ uploadSessions[c] # 0
    /\ uploadSessions'[c] # uploadSessions[c]

\* every session in the store is active, and no inactive session is in it
StoreHoldsActive ==
    \A s \in Slots :
        heap[s] # Null => (s \in InStore => heap[s].isActive)

\* C9 as stated: every session in the store is active, and a session leaves
\* the store only in a /done, /cancel or wrong-password step, which makes it
\* inactive; it never leaves the store while still active.
C9_RemovedExactlyWhenInactive ==
    [][ /\ StoreHoldsActive'
        /\ uploadSessions' # uploadSessions =>
             \A c \in Chats :
                Removed(c) =>
                   /\ Done(c) \/ Cancel(c) \/ \E t \in Texts : Text(c, t)
                   /\ uploadSessions[c] \in Live' =>
                         ~heap'[uploadSessions[c]].isActive
      ]_vars

\* C9 amended: every session in the store is active; /done, /cancel and a
\* wrong password make the session inactive and take it out of the store in
\* one step; the only other way out of the store is /upload for the same
\* conversation, which drops the old session while it is still active.
C9_RemovedWhenInactiveOrReplaced ==
    [][ /\ StoreHoldsActive'
        /\ uploadSessions' # uploadSessions =>
             \A c \in Chats :
                Removed(c) =>
                   LET s == uploadSessions[c] IN
                   \/ /\ Done(c) \/ Cancel(c) \/ \E t \in Texts : Text(c, t)
                      /\ uploadSessions'[c] = 0
                      /\ s \in Live' => ~heap'[s].isActive
                   \/ /\ Upload(c)
                      /\ uploadSessions'[c] # 0
                      /\ heap[s].isActive
                      /\ s \in Live' => heap'[s].isActive
      ]_vars

\* C9 witness: a handler still holds a session that /upload took out of the
\* store: it is out of the store and active
C9_Witness ==
    \E p \in InFlight :
        /\ psess[p] \notin InStore
        /\ heap[psess[p]].isActive

\* the store holds at most one session per conversation, under its own key
OnePerConversation ==
    \A c \in Chats :
        uploadSessions[c] # 0 =>
            /\ heap[uploadSessions[c]] # Null
            /\ heap[uploadSessions[c]].chatID = c
            /\ \A d \in Chats : uploadSessions[d] = uploadSessions[c] => d = c

\* C10: the store holds at most one session per conversation, and /upload puts
\* a new object under the conversation's key: active, uploadCount 0, startTime
\* the time of the /upload, not authenticated; the old object, if any, is out
\* of the store and keeps its fields.
C10_UploadReplaces ==
    [][ /\ OnePerConversation'
        /\ allocated' # allocated =>
             \A c \in Chats :
                Upload(c) =>
                   LET old == uploadSessions[c]
                       new == uploadSessions'[c]
                   IN  /\ new # 0 /\ new \notin Live
                       /\ heap'[new].chatID = c
                       /\ heap'[new].isActive
                       /\ heap'[new].uploadCount = 0
                       /\ heap'[new].startTime = now'
                       /\ \A s \in Slots \ {new} :
                             heap'[s] # Null => heap'[s].startTime <= heap'[new].startTime
                       /\ ~heap'[new].authenticated
                       /\ old # 0 => old \notin InStore'
                       /\ (old # 0 /\ old \in Live') => heap'[old] = heap[old]
      ]_vars

\* C10 witness: /upload replaced a session that had counted a file; a handler
\* still holds the old object, the store holds a new one with uploadCount 0
C10_Witness ==
    \E p \in InFlight :
        LET old == psess[p]
            new == uploadSessions[heap[old].chatID]
        IN  /\ old \notin InStore
            /\ heap[old].isActive
            /\ heap[old].uploadCount > 0
            /\ new # 0
            /\ heap[new].uploadCount = 0
            /\ heap[new].startTime > heap[old].startTime

\* conversation c has an active session that waits for the password
Awaiting(c) ==
    /\ uploadSessions[c] # 0
    /\ heap[uploadSessions[c]].isActive
    /\ ~AuthHolds(c)

TextReplies == {"none", "authOk", "rejected"}

\* a step that is a document event of a conversation without a store entry
\* sends "no active session", starts no upload and stores nothing
NoEntryNoUpload(c) ==
    (uploadSessions[c] = 0 /\ last'.reply \in DocumentReplies) =>
        \/ /\ last'.reply = "noSession"
           /\ pc' = pc
           /\ stored' = stored
        \/ \A p \in Procs, f \in FileNames : ~DocumentBegin(p, c, f)

\* C11: where the password is configured, a text that differs from it,
\* received while the conversation's session awaits the password, makes the
\* session inactive, takes it out of the store in that step and is answered by
\* the rejection; from then on the conversation has no store entry until its
\* next /upload, which installs an object that was not in use, with
\* uploadCount 0 and nothing stored; while there is no entry a document of the
\* conversation is answered "no active session" and starts no upload.
C11_WrongPasswordDestroys ==
    [][ /\ (envPassword # "" /\ last'.reply \in TextReplies) =>
             \A c \in Chats, t \in Texts :
                (Awaiting(c) /\ t # envPassword /\ Text(c, t)) =>
                    /\ last'.reply = "rejected"
                    /\ uploadSessions'[c] = 0
                    /\ uploadSessions[c] \in Live' => ~heap'[uploadSessions[c]].isActive
                    /\ \A f \in FileNames : ~MayUpload(c, f)'
        /\ \A c \in Chats :
             (uploadSessions[c] = 0 /\ uploadSessions'[c] # 0) =>
                 /\ Upload(c)
                 /\ uploadSessions'[c] \notin Live
                 /\ heap'[uploadSessions'[c]].uploadCount = 0
                 /\ stored'[uploadSessions'[c]] = 0
        /\ \A c \in Chats : NoEntryNoUpload(c)
      ]_vars

\* C11 witness: a wrong password was just rejected, and the conversations
\* hold no session although one was created
C11_Witness ==
    /\ last.reply = "rejected"
    /\ allocated = 1
    /\ InStore = {}

\* C12: when b.File or uploadFile fails, the handler sends the error reply
\* and returns; the store, the authentication flag and every session object
\* still in use are as before the step (uploadCount, isActive, authenticated),
\* nothing more is stored; a session that was open before the step (in the
\* store, active, authenticated) still accepts a .jar document after it, also
\* when other events were handled between the document and the failure.
C12_FailureLeavesSessionOpen ==
    [][ pc' # pc =>
          \A p \in Procs, result \in UploadResults \ {"ok"} :
             DocumentUpload(p, result) =>
                /\ last'.reply = result
                /\ pc'[p] = "idle"
                /\ uploadSessions' = uploadSessions
                /\ isFirstTimeSetup' = isFirstTimeSetup
                /\ \A r \in Live' \ {0} : heap'[r] = heap[r] /\ stored'[r] = stored[r]
                /\ \A c \in Chats :
                      (uploadSessions[c] = psess[p] /\ MayUpload(c, ModJar)) =>
                          /\ uploadSessions'[c] \in Live'
                          /\ MayUpload(c, ModJar)'
      ]_vars

\* C12 witness: of two documents of one session, one failed and the other
\* was stored and counted; the session is still open
C12_Witness ==
    \E s \in InStore :
        /\ accepted = 2
        /\ allocated = 1
        /\ InFlight = {}
        /\ stored[s] = 1
        /\ heap[s].uploadCount = 1
        /\ heap[s].isActive
        /\ last.reply = "uploaded"

EndReplies == {"noSession", "summary", "cancelled"}

\* C13: a /done or /cancel step leaves the conversation without a store
\* entry; while a conversation has no entry, /done and /cancel change neither
\* store nor sessions and answer "no active session", a document is answered
\* the same way and starts no upload, and only /upload gives the conversation
\* an entry again.
C13_EndIsIdempotent ==
    [][ /\ last'.reply \in EndReplies =>
             \A c \in Chats :
                (Done(c) \/ Cancel(c)) =>
                    /\ uploadSessions'[c] = 0
                    /\ uploadSessions[c] = 0 =>
                          /\ last'.reply = "noSession"
                          /\ UNCHANGED <<uploadSessions, heap, isFirstTimeSetup, stored>>
                    /\ uploadSessions[c] # 0 =>
                          /\ last'.reply \in {"summary", "cancelled"}
                          /\ \A d \in Chats \ {c} : uploadSessions'[d] = uploadSessions[d]
        /\ \A c \in Chats :
             /\ NoEntryNoUpload(c)
             /\ (uploadSessions[c] = 0 /\ uploadSessions'[c] # 0) => Upload(c)
      ]_vars

\* C13 witness: a session was ended by /done while one of its documents was
\* on its way to Drive, and a later event was answered "no active session"
C13_Witness ==
    \E p \in InFlight :
        /\ reported[psess[p]] >= 0
        /\ ~heap[psess[p]].isActive
        /\ last.reply = "noSession"

\* conversation c has an active, authenticated session
Uploading(c) ==
    /\ uploadSessions[c] # 0
    /\ heap[uploadSessions[c]].isActive
    /\ AuthHolds(c)

\* C14: /done and /cancel take the session out of the store and send the
\* summary or the cancelled reply only when the conversation is uploading
\* (active and authenticated session); in every other state, awaiting the
\* password included, they leave the store as it is and answer "no active
\* session".
C14_EndOnlyFromUploading ==
    [][ last'.reply \in EndReplies =>
          \A c \in Chats :
             (Done(c) \/ Cancel(c)) =>
                IF Uploading(c)
                  THEN /\ uploadSessions'[c] = 0
                       /\ last'.reply \in {"summary", "cancelled"}
                  ELSE /\ uploadSessions' = uploadSessions
                       /\ last'.reply = "noSession"
      ]_vars

\* the session of conversation c is in the store after the step as before,
\* active, with the start time it had
Stays(c) ==
    /\ uploadSessions'[c] = uploadSessions[c]
    /\ heap'[uploadSessions[c]].isActive
    /\ heap'[uploadSessions[c]].chatID = c
    /\ heap'[uploadSessions[c]].startTime = heap[uploadSessions[c]].startTime

\* C15 as stated: a session in the store stays there, active, through every
\* step that is not /done or /cancel of its conversation.
C15_StaysUntilDoneOrCancel ==
    [][ \A c \in Chats :
          uploadSessions[c] # 0 =>
             \/ Stays(c)
             \/ Done(c)
             \/ Cancel(c)
      ]_vars

\* C15 amended: a session in the store stays there, active, through every
\* step (the clock, texts, documents, commands, in this or another
\* conversation) that is not /done, /cancel or a rejected password text of
\* its conversation, nor an /upload of its conversation, which replaces it.
C15_StaysUntilEndedOrReplaced ==
    [][ \A c \in Chats :
          uploadSessions[c] # 0 =>
             \/ Stays(c)
             \/ Done(c)
             \/ Cancel(c)
             \/ \E t \in Texts : Text(c, t) /\ last'.reply = "rejected"
             \/ Upload(c) /\ uploadSessions'[c] # 0 /\ heap'[uploadSessions'[c]].isActive
      ]_vars

\* C15 witness: the session that conversation c started at time 0 is in the
\* store and active at a later time, after the other conversation started a
\* session and ended it
C15_Witness ==
    \E c, d \in Chats :
        /\ c # d
        /\ uploadSessions[c] # 0
        /\ heap[uploadSessions[c]].isActive
        /\ heap[uploadSessions[c]].startTime < now
        /\ uploadSessions[d] = 0
        /\ allocated = 2
        /\ last.reply \in {"summary", "cancelled", "rejected"}

\* C16: a text received while the conversation has no session, or while its
\* session is uploading (active and authenticated), gets no reply and changes
\* neither the store nor any session object nor the authentication flag nor
\* the marker file, whatever the text is.
C16_StrayTextIgnored ==
    [][ last'.reply \in TextReplies =>
          \A c \in Chats, t \in Texts :
             ((uploadSessions[c] = 0 \/ Uploading(c)) /\ Text(c, t)) =>
                 /\ last'.reply = "none"
                 /\ UNCHANGED <<uploadSessions, heap, isFirstTimeSetup, markerFile,
                                stored, pc>>
      ]_vars

\* C16 witness: a text was ignored after a session had counted a file, and
\* that session is still in the store and active
C16_Witness ==
    /\ last.reply = "none"
    /\ \E s \in InStore : heap[s].uploadCount > 0 /\ heap[s].isActive

QueryReplies == {"listError", "noMods", "list", "countError", "quantity"}

\* no session, store, flag or handler is touched by the step
SessionsUntouched ==
    UNCHANGED <<uploadSessions, heap, isFirstTimeSetup, markerFile, pc, psess,
                stored, gotPassword>>

\* C17: in every state, a /list or /quantity step leaves the store, every
\* session object, the authentication flag and the running handlers as they
\* are, and its reply is determined by what listFiles returned: the error
\* reply when it failed; for /list "no mods" for an empty listing and else
\* the names in the order of the listing, numbered from 1; for /quantity the
\* number of entries.
C17_QueriesIgnoreSessions ==
    [][ last'.reply \in QueryReplies =>
          /\ \A r \in ListFiles :
                List(r) =>
                   /\ SessionsUntouched
                   /\ IF r.err THEN last'.reply = "listError"
                      ELSE IF r.files = <<>> THEN last'.reply = "noMods"
                      ELSE /\ last'.reply = "list"
                           /\ Len(last'.names) = Len(r.files)
                           /\ \A k \in 1 .. Len(r.files) :
                                 last'.names[k] = <<k, r.files[k]>>
          /\ \A r \in ListFiles :
                Quantity(r) =>
                   /\ SessionsUntouched
                   /\ IF r.err THEN last'.reply = "countError"
                      ELSE last'.reply = "quantity" /\ last'.n = Len(r.files)
      ]_vars

\* C17 witness: the listing was sent while one conversation awaits the
\* password and the other is uploading
C17_Witness ==
    /\ last.reply = "list"
    /\ last.names = <<(<<1, ModJar>>), (<<2, DotJar>>)>>
    /\ \E c, d \in Chats : Awaiting(c) /\ Uploading(d)

\* the reply the OnDocument handler owes conversation c for file name f
\* before it turns to Drive
DocumentAnswer(c, f) ==
    IF uploadSessions[c] = 0 THEN "noSession"
    ELSE IF Awaiting(c) THEN "authFirst"
    ELSE IF ~EndsWithJar(f) THEN "onlyJar"
    ELSE "progress"

\* C18: while the bot serves, every step of a handler sends a reply, except
\* a text received outside AwaitingPassword and the return of the Drive calls
\* of a document that succeeded (that handler has sent the progress reply and
\* sends the success reply with the increment); a text received in
\* AwaitingPassword is answered by the success or the rejection reply; a
\* document event is answered by the reply of its case (no session, not
\* authenticated, wrong file type, progress), a failure of b.File or
\* uploadFile by its error reply, a stored file by the success reply.
C18_EveryEventAnswered ==
    [][ (Started /\ now' = now) =>
          /\ \/ last'.reply # "none"
             \/ \E c \in Chats, t \in Texts : Text(c, t) /\ ~Awaiting(c)
             \/ \E p \in Procs : DocumentUpload(p, "ok")
          /\ \A c \in Chats :
                Awaiting(c) =>
                   \A t \in Texts :
                      Text(c, t) => last'.reply \in {"authOk", "rejected"}
          /\ last'.reply \in DocumentReplies =>
                \A c \in Chats, f \in FileNames :
                   last'.reply # DocumentAnswer(c, f) =>
                      \A p \in Procs : ~DocumentBegin(p, c, f)
          /\ pc' # pc =>
                \A p \in Procs :
                   /\ \A result \in UploadResults \ {"ok"} :
                         DocumentUpload(p, result) => last'.reply = result
                   /\ DocumentIncStore(p) => last'.reply = "uploaded"
      ]_vars

\* C18 witness: a document handler returned with the error of the store
\* call as its reply, while another document is on its way to Drive
C18_Witness ==
    /\ last.reply = "uploadError"
    /\ InFlight # {}
    /\ accepted = 2

\* the step leaves conversation c authenticated
Authenticates(c) ==
    IF variant = MainGo
      THEN ~isFirstTimeSetup'
      ELSE uploadSessions'[c] # 0 /\ heap'[uploadSessions'[c]].authenticated

\* C19: in every configuration, a text received while the conversation awaits
\* the password authenticates it exactly when a password is configured and
\* the text equals it; where none is configured no text authenticates.
C19_ExactConfiguredPassword ==
    [][ last'.reply \in TextReplies =>
          \A c \in Chats, t \in Texts :
             (Awaiting(c) /\ Text(c, t)) =>
                 (Authenticates(c) <=> (envPassword # "" /\ t = envPassword))
      ]_vars

\* C20: main leaves initGoogleDrive for tele.NewBot only with a DriveManager
\* and terminates when initGoogleDrive failed; a terminated process does
\* nothing more; replies, sessions and handlers change only while the bot
\* serves, and it serves only with a DriveManager.
C20_NoEventBeforeDrive ==
    [][ /\ (mainpc = "init" /\ mainpc' # "init") =>
             IF driveManager' = "nil" THEN mainpc' = "exited" ELSE mainpc' = "newBot"
        /\ mainpc = "exited" =>
             /\ mainpc' = "exited"
             /\ UNCHANGED <<last, uploadSessions, heap, pc, stored, isFirstTimeSetup>>
        /\ (last' # last \/ uploadSessions' # uploadSessions \/ pc' # pc \/ heap' # heap) =>
             /\ mainpc = "serving"
             /\ driveManager = "ok"
        /\ mainpc' = "serving" => driveManager' = "ok"
      ]_vars

\* C20 witness: initGoogleDrive failed and the process has terminated
\* without a DriveManager, no event handled
C20_Witness ==
    /\ mainpc = "exited"
    /\ driveManager = "nil"
    /\ last.reply = "none"
    /\ allocated = 0

\* the Session record of conversation b: its presence in the store and, when
\* present, the fields of its session
Record(b) ==
    IF uploadSessions[b] = 0 THEN Null ELSE heap[uploadSessions[b]]

\* the step handles an event of conversation a, or is a step of a document
\* handler that holds a session of conversation a
EventOf(a) ==
    \/ Start(a)
    \/ Upload(a)
    \/ Done(a)
    \/ Cancel(a)
    \/ \E t \in Texts : Text(a, t)
    \/ \E p \in Procs, f \in FileNames : DocumentBegin(p, a, f)
    \/ \E p \in InFlight :
          /\ heap[psess[p]].chatID = a
          /\ \/ \E result \in UploadResults : DocumentUpload(p, result)
             \/ DocumentIncStore(p)

\* C21: the Session record of a conversation b (its presence in the store,
\* isActive, uploadCount, startTime, authenticated) changes only in a step
\* that handles an event of b; no step that handles an event of another
\* conversation changes it, and no step changes the records of two
\* conversations.  In part_000 the flag isFirstTimeSetup never changes.
C21_OtherConversationUntouched ==
    [][ /\ \A b \in Chats :
             Record(b)' # Record(b) =>
                 /\ EventOf(b)
                 /\ \A a \in Chats \ {b} : ~EventOf(a) /\ Record(a)' = Record(a)
        /\ variant = PartGo => isFirstTimeSetup' = isFirstTimeSetup
      ]_vars

\* C21 witness: in part_000 one conversation has entered the password and
\* counted a file while the session of the other, started at the same time,
\* still awaits the password with nothing counted
C21_Witness ==
    /\ variant = PartGo
    /\ last.reply = "uploaded"
    /\ \E a, b \in Chats :
          /\ a # b
          /\ Uploading(a) /\ heap[uploadSessions[a]].uploadCount > 0
          /\ Awaiting(b) /\ heap[uploadSessions[b]].uploadCount = 0
          /\ heap[uploadSessions[b]].startTime = heap[uploadSessions[a]].startTime

\* C22: in main.go, when the correct password is accepted in conversation b,
\* every other conversation whose session was awaiting the password is
\* uploading after that step, although its session received no text; and a
\* .jar document of a conversation that is uploading with a session that
\* never received the password goes on to Drive (progress reply, handler on
\* its way), where its success is counted on that session.
C22_OthersUnlockedByOnePassword ==
    [][ variant = MainGo =>
          /\ (isFirstTimeSetup /\ ~isFirstTimeSetup') =>
                \E b \in Chats :
                   /\ \E t \in Texts : Text(b, t)
                   /\ gotPassword'[uploadSessions[b]]
                   /\ \A a \in Chats \ {b} :
                         Awaiting(a) =>
                            /\ Uploading(a)'
                            /\ gotPassword'[uploadSessions[a]] = gotPassword[uploadSessions[a]]
          /\ last'.reply \in DocumentReplies =>
                \A a \in Chats :
                   (Uploading(a) /\ ~gotPassword[uploadSessions[a]]) =>
                      \A p \in Procs :
                         DocumentBegin(p, a, ModJar) =>
                            /\ last'.reply = "progress"
                            /\ pc'[p] = "upload"
                            /\ psess'[p] = uploadSessions[a]
          /\ pc' # pc =>
                \A p \in Procs :
                   (pc[p] = "write" /\ ~gotPassword[psess[p]] /\ DocumentIncStore(p)) =>
                      /\ last' = Reply("uploaded", ptmp[p] + 1)
                      /\ psess[p] \in Live' =>
                            heap'[psess[p]].uploadCount = ptmp[p] + 1
      ]_vars

\* C22 witness: in main.go the session started first never received the
\* password, the session started later received it while it was still
\* required, and the first one has a file stored and counted
C22_Witness ==
    /\ variant = MainGo
    /\ \E a, b \in Chats :
          /\ a # b
          /\ uploadSessions[a] # 0 /\ uploadSessions[b] # 0
          /\ heap[uploadSessions[a]].startTime < heap[uploadSessions[b]].startTime
          /\ gotPassword[uploadSessions[b]]
          /\ ~gotPassword[uploadSessions[a]]
          /\ stored[uploadSessions[a]] > 0
          /\ heap[uploadSessions[a]].uploadCount > 0

\* C23: in main.go, within one process the flag isFirstTimeSetup, once false,
\* stays false through every event (/upload, /done, /cancel, texts,
\* documents, /list, /quantity), and it becomes false only by an accepted
\* password; a restart leaves an empty store with no handler running, and the
\* flag false exactly when the marker file exists.
C23_FlagMonotonicUntilRestart ==
    [][ variant = MainGo =>
          IF Restart
            THEN /\ \A c \in Chats : uploadSessions'[c] = 0
                 /\ \A s \in Slots : heap'[s] = Null
                 /\ InFlight' = {}
                 /\ (isFirstTimeSetup' = FALSE) <=> markerFile'
                 /\ markerFile' = markerFile
            ELSE /\ ~isFirstTimeSetup => ~isFirstTimeSetup'
                 /\ (isFirstTimeSetup /\ ~isFirstTimeSetup') => last'.reply = "authOk"
                 /\ markerFile => markerFile'
      ]_vars

\* C23 witness: main.go was started again after sessions had been opened
\* and a document accepted: the store is empty and the flag is false with
\* the marker file present
C23_Witness ==
    /\ variant = MainGo
    /\ mainpc = "init"
    /\ allocated = 2
    /\ accepted > 0
    /\ InStore = {}
    /\ markerFile
    /\ ~isFirstTimeSetup

=============================================================================
